---- MODULE Spec2Model ----
(***************************************************************************)
(* A model of blacktex (src/src/blacktex/main.py, src/src/blacktex/cli.py):*)
(* the text passes of clean(), the range-substitution utility, the bracket *)
(* scans, and the in-place file handling of cli.main and process_file.     *)
(*                                                                         *)
(* A text is a sequence of one-character strings.  Offsets are Python's:   *)
(* 0-based, ranges half-open, a negative index counting from the end.      *)
(***************************************************************************)
EXTENDS Integers, Sequences, FiniteSets, TLC

VARIABLES
    string,          \* the text argument of the call under way
    out,             \* clean's local `out`, or the value a call returned
    pc,              \* the position in the code
    raised,          \* "none", or the exception that left the call
    warned,          \* the excerpts warnings.warn was called with
    keep_comments,   \* clean's flag
    keep_dollar,     \* clean's flag
    first,           \* the text a first call of clean returned
    round,           \* 1: the first call of clean, 2: the call on its result
    ranges,          \* the ranges for _substitute_string_ranges
    replacements,    \* the replacements for _substitute_string_ranges
    files,           \* file name -> content
    writes,          \* the files the invocation under way opened for writing
    return_values,   \* process_file's default argument: one list per process
    infiles,         \* the files of the invocation under way
    todo,            \* the files of it still to be processed
    return_code,     \* cli.main's local
    status,          \* what each finished invocation returned and changed
    invocations      \* how many invocations were started

vars == <<string, out, pc, raised, warned, keep_comments, keep_dollar, first,
          round, ranges, replacements, files, writes, return_values, infiles,
          todo, return_code, status, invocations>>

(***************************************************************************)
(* Characters and Python's string primitives                               *)
(***************************************************************************)
Chars(s) == [i \in 1..Len(s) |-> SubSeq(s, i, i)]

Range(f) == {f[i] : i \in DOMAIN f}

Min(a, b) == IF a < b THEN a ELSE b

Max(a, b) == IF a > b THEN a ELSE b

\* str.isspace characters the model can write
WS == {" ", "\t", "\n", "\r", "\f"}

Lower == Range(Chars("abcdefghijklmnopqrstuvwxyz"))

Upper == Range(Chars("ABCDEFGHIJKLMNOPQRSTUVWXYZ"))

Digits == Range(Chars("0123456789"))

\* string[k] is defined for -len <= k < len, and raises IndexError otherwise
InRange(s, k) == -Len(s) <= k /\ k < Len(s)

PyAt(s, k) == IF k >= 0 THEN s[k + 1] ELSE s[Len(s) + k + 1]

\* a slice bound as Python normalises it
PyBound(s, k) == IF k < 0 THEN Max(k + Len(s), 0) ELSE Min(k, Len(s))

\* string[a:b]
PySlice(s, a, b) == SubSeq(s, PyBound(s, a) + 1, PyBound(s, b))

\* string[a:]
PyFrom(s, a) == SubSeq(s, PyBound(s, a) + 1, Len(s))

RECURSIVE Flatten(_)
Flatten(ss) == IF ss = <<>> THEN <<>> ELSE Head(ss) \o Flatten(Tail(ss))

RECURSIVE LStrip(_)
LStrip(s) == IF s # <<>> /\ Head(s) \in WS THEN LStrip(Tail(s)) ELSE s

RECURSIVE RStrip(_)
RStrip(s) ==
    IF s # <<>> /\ s[Len(s)] \in WS THEN RStrip(SubSeq(s, 1, Len(s) - 1)) ELSE s

Strip(s) == LStrip(RStrip(s))

\* string.split(sep) for a one-character sep: never empty
RECURSIVE Split(_, _)
Split(s, sep) ==
    IF \A i \in 1..Len(s) : s[i] # sep THEN <<s>>
    ELSE LET i == CHOOSE j \in 1..Len(s) :
                      s[j] = sep /\ \A h \in 1..(j - 1) : s[h] # sep
         IN  <<SubSeq(s, 1, i - 1)>> \o Split(SubSeq(s, i + 1, Len(s)), sep)

\* sep.join(parts)
RECURSIVE Join(_, _)
Join(parts, sep) ==
    IF parts = <<>> THEN <<>>
    ELSE IF Len(parts) = 1 THEN parts[1]
    ELSE parts[1] \o sep \o Join(Tail(parts), sep)

\* whether the characters of lit stand at offset i of s
IsAt(s, i, lit) ==
    /\ i + Len(lit) <= Len(s)
    /\ \A j \in 1..Len(lit) : s[i + j] = lit[j]

\* string.replace(old, new), old not empty
RECURSIVE Replace(_, _, _)
Replace(s, old, new) ==
    IF s = <<>> THEN <<>>
    ELSE IF IsAt(s, 0, old)
         THEN new \o Replace(SubSeq(s, Len(old) + 1, Len(s)), old, new)
         ELSE <<Head(s)>> \o Replace(Tail(s), old, new)

(***************************************************************************)
(* Python's re, as far as main.py uses it: a pattern is a sequence of      *)
(* items matched by backtracking, the alternatives tried in re's order.    *)
(***************************************************************************)
In(cs) == [t |-> "in", cs |-> cs]                   \* [...]

NotIn(cs) == [t |-> "notin", cs |-> cs]             \* [^...]

Dot == NotIn({"\n"})                                \* .

Lit(str) == [t |-> "lit", s |-> Chars(str)]         \* the characters of str

Grp(n, re) == [t |-> "grp", n |-> n, re |-> re]     \* the n-th ( ... )

NotBehind(cs) == [t |-> "nb", cs |-> cs]            \* (?<!c)

Eos == [t |-> "eos"]                                \* $

Rep(a, lo, hi, greedy) ==
    [t |-> "rep", a |-> a, lo |-> lo, hi |-> hi, greedy |-> greedy]

\* hi = -1: no upper limit
Star(a) == Rep(a, 0, -1, TRUE)                      \* a*

Plus(a) == Rep(a, 1, -1, TRUE)                      \* a+

Opt(a) == Rep(a, 0, 1, TRUE)                        \* a?

LazyStar(a) == Rep(a, 0, -1, FALSE)                 \* a*?

\* no pattern of main.py has more than four groups
NoGroups == [n \in 1..4 |-> <<-1, -1>>]

\* The ways items k.. of re match s from offset i, best first:
\* each <<end offset, groups>>.
RECURSIVE M(_, _, _, _, _)
RECURSIVE MGrp(_, _, _, _, _, _, _)
RECURSIVE MRep(_, _, _, _, _, _)
RECURSIVE MMore(_, _, _, _, _, _, _)
M(s, re, k, i, g) ==
    IF k > Len(re) THEN << <<i, g>> >>
    ELSE LET a == re[k] IN
         CASE a.t = "in" ->
                IF i < Len(s) /\ s[i + 1] \in a.cs
                THEN M(s, re, k + 1, i + 1, g) ELSE <<>>
           [] a.t = "notin" ->
                IF i < Len(s) /\ s[i + 1] \notin a.cs
                THEN M(s, re, k + 1, i + 1, g) ELSE <<>>
           [] a.t = "lit" ->
                IF IsAt(s, i, a.s)
                THEN M(s, re, k + 1, i + Len(a.s), g) ELSE <<>>
           [] a.t = "nb" ->
                IF i > 0 /\ s[i] \in a.cs THEN <<>> ELSE M(s, re, k + 1, i, g)
           [] a.t = "eos" ->
                IF i = Len(s) \/ (i = Len(s) - 1 /\ s[i + 1] = "\n")
                THEN M(s, re, k + 1, i, g) ELSE <<>>
           [] a.t = "grp" -> MGrp(s, re, k, i, M(s, a.re, 1, i, g), 1, a.n)
           [] a.t = "rep" -> MRep(s, re, k, i, g, 0)

\* a group matched in the ways rs: the rest of re after each of them
MGrp(s, re, k, i, rs, j, n) ==
    IF j > Len(rs) THEN <<>>
    ELSE M(s, re, k + 1, rs[j][1], [rs[j][2] EXCEPT ![n] = <<i, rs[j][1]>>])
         \o MGrp(s, re, k, i, rs, j + 1, n)

\* the alternatives of a repetition in re's order
InOrder(greedy, more, stop) == IF greedy THEN more \o stop ELSE stop \o more

\* item k is a repetition of which c rounds are matched
MRep(s, re, k, i, g, c) ==
    InOrder(re[k].greedy,
        IF re[k].hi < 0 \/ c < re[k].hi
        THEN MMore(s, re, k, M(s, <<re[k].a>>, 1, i, g), 1, i, c) ELSE <<>>,
        IF c >= re[k].lo THEN M(s, re, k + 1, i, g) ELSE <<>>)

\* one more round, matched in the ways rs (an empty round is not repeated)
MMore(s, re, k, rs, j, i, c) ==
    IF j > Len(rs) THEN <<>>
    ELSE (IF rs[j][1] > i THEN MRep(s, re, k, rs[j][1], rs[j][2], c + 1) ELSE <<>>)
         \o MMore(s, re, k, rs, j + 1, i, c)

First(rs) == IF rs = <<>> THEN <<>> ELSE rs[1]

\* pattern.match at offset i: <<>> or <<end, groups>>
MatchAt(s, re, i) == First(M(s, re, 1, i, NoGroups))

\* pattern.finditer(string): each match as <<start, end>>, left to right.
\* No pattern of main.py matches the empty text.
RECURSIVE FindFrom(_, _, _)
RECURSIVE FindNext(_, _, _, _)
FindFrom(s, re, pos) ==
    IF pos >= Len(s) THEN <<>> ELSE FindNext(s, re, pos, MatchAt(s, re, pos))

\* m: the match at offset pos
FindNext(s, re, pos, m) ==
    IF m = <<>> THEN FindFrom(s, re, pos + 1)
    ELSE << <<pos, m[1]>> >> \o FindFrom(s, re, m[1])

Finditer(s, re) == FindFrom(s, re, 0)

\* [m.start() for m in ms], [m.end() for m in ms]
Starts(ms) == [j \in 1..Len(ms) |-> ms[j][1]]

Ends(ms) == [j \in 1..Len(ms) |-> ms[j][2]]

GroupRefs == {"\\1", "\\2", "\\3", "\\4"}

GroupNo(ref) ==
    CASE ref = "\\1" -> 1 [] ref = "\\2" -> 2 [] ref = "\\3" -> 3 [] ref = "\\4" -> 4

\* the text of a group: "" for a group that took no part in the match
GroupText(s, sp) == IF sp[1] < 0 THEN <<>> ELSE SubSeq(s, sp[1] + 1, sp[2])

\* a replacement template filled in
RECURSIVE Expand(_, _, _)
Expand(tmpl, s, g) ==
    IF tmpl = <<>> THEN <<>>
    ELSE (IF Head(tmpl) \in GroupRefs
          THEN GroupText(s, g[GroupNo(Head(tmpl))])
          ELSE <<Head(tmpl)>>)
         \o Expand(Tail(tmpl), s, g)

\* re.sub(pattern, template, string)
RECURSIVE SubFrom(_, _, _, _)
RECURSIVE SubNext(_, _, _, _, _)
SubFrom(s, re, tmpl, pos) ==
    IF pos >= Len(s) THEN <<>> ELSE SubNext(s, re, tmpl, pos, MatchAt(s, re, pos))

\* m: the match at offset pos
SubNext(s, re, tmpl, pos, m) ==
    IF m = <<>> THEN <<s[pos + 1]>> \o SubFrom(s, re, tmpl, pos + 1)
    ELSE Expand(tmpl, s, m[2]) \o SubFrom(s, re, tmpl, m[1])

Sub(re, tmpl, s) == SubFrom(s, re, tmpl, 0)

\* a template: its literal characters, with the group references kept whole
T(parts) == Flatten([i \in 1..Len(parts) |->
                IF parts[i] \in GroupRefs THEN <<parts[i]>> ELSE Chars(parts[i])])
(***************************************************************************)
(* The passes of main.py                                                   *)
(***************************************************************************)
\* what a pass that can raise or warn hands back
Ok(v) == [err |-> "none", val |-> v, warn |-> <<>>]

Raise(e) == [err |-> e, val |-> <<>>, warn |-> <<>>]

\* the text spliced together from the slices between the ranges
RECURSIVE substitute_between(_, _, _, _)
substitute_between(str, rngs, reps, k) ==
    IF k >= Len(reps) THEN <<>>
    ELSE reps[k] \o PySlice(str, rngs[k][2], rngs[k + 1][1])
         \o substitute_between(str, rngs, reps, k + 1)

\* a variant that keeps the text of the last range behind its replacement
substitute_keeping_last_range(str, rngs, reps) ==
    IF rngs # <<>>
    THEN PySlice(str, 0, rngs[1][1])
         \o substitute_between(str, rngs, reps, 1)
         \o reps[Len(reps)] \o PyFrom(str, rngs[Len(rngs)][1])
    ELSE str

substitute_string_ranges(str, rngs, reps) ==
    IF rngs # <<>>
    THEN PySlice(str, 0, rngs[1][1])
         \o substitute_between(str, rngs, reps, 1)
         \o reps[Len(reps)] \o PyFrom(str, rngs[Len(rngs)][2])
    ELSE str

\* sline = line.strip(); len(sline) > 0 and sline[0] == "%"
is_comment_line(line) == Len(Strip(line)) > 0 /\ Strip(line)[1] = "%"

RECURSIVE drop_comment_lines(_)
drop_comment_lines(lines) ==
    IF lines = <<>> THEN <<>>
    ELSE (IF is_comment_line(Head(lines)) THEN <<>> ELSE <<Head(lines)>>)
         \o drop_comment_lines(Tail(lines))

\* "[ \t]*(?<!\\\\)%.+\n"
comment_to_newline ==
    <<Star(In({" ", "\t"})), NotBehind({"\\"}), Lit("%"), Plus(Dot), Lit("\n")>>

\* a variant that takes a "%" at the very end for a comment too
comment_or_percent_to_eof ==
    <<Star(In({" ", "\t"})), NotBehind({"\\"}), Lit("%"), Star(Dot), Eos>>

\* "[ \t]*(?<!\\\\)%.+$"
comment_to_eof ==
    <<Star(In({" ", "\t"})), NotBehind({"\\"}), Lit("%"), Plus(Dot), Eos>>

remove_comments(str) ==
    LET s1 == Join(drop_comment_lines(Split(str, "\n")), <<"\n">>)
        s2 == Sub(comment_to_newline, T(<<"\n">>), s1)
    IN  Sub(comment_to_eof, <<>>, s2)

\* "\n".join([line.rstrip() for line in string.split("\n")])
remove_trailing_whitespace(str) ==
    Join([k \in 1..Len(Split(str, "\n")) |-> RStrip(Split(str, "\n")[k])],
         <<"\n">>)

remove_multiple_spaces(str) ==
    Sub(<<Grp(1, <<NotIn({"\n", " "})>>), Lit(" "), Plus(Lit(" "))>>,
        T(<<"\\1", " ">>), str)

remove_multiple_newlines(str) ==
    Sub(<<Lit("\n\n\n"), Plus(Lit("\n"))>>, T(<<"\n\n\n">>), str)

remove_whitespace_around_brackets(str) ==
    LET s1 == Sub(<<Lit("{"), Plus(In({" ", "\t"}))>>, T(<<"{">>), str)
        s2 == Sub(<<Plus(In({" ", "\t"})), Lit("}")>>, T(<<"}">>), s1)
        s3 == Sub(<<Lit("("), Plus(In({" ", "\t"}))>>, T(<<"(">>), s2)
        s4 == Sub(<<Plus(In({" ", "\t"})), Lit(")")>>, T(<<")">>), s3)
    IN  Sub(<<Plus(In({" ", "\t"})), Lit("\\right)")>>, T(<<"\\right)">>), s4)

\* the (start, end) pairs of consecutive locations, as the while loops build them
RECURSIVE dollar_dollar_ranges(_, _)
dollar_dollar_ranges(locations, k) ==
    IF k >= Len(locations) THEN <<>>
    ELSE << <<locations[k + 1], locations[k + 2] + 2>> >>
         \o dollar_dollar_ranges(locations, k + 2)

RECURSIVE dollar_dollar_replacements(_, _, _)
dollar_dollar_replacements(str, locations, k) ==
    IF k >= Len(locations) THEN <<>>
    ELSE << Chars("\\[")
            \o PySlice(str, locations[k + 1] + 2, locations[k + 2])
            \o Chars("\\]") >>
         \o dollar_dollar_replacements(str, locations, k + 2)

\* _replace_dollar_dollar once `locations` is computed
dollar_dollar_at(str, locations) ==
    IF Len(locations) % 2 # 0 THEN Raise("AssertionError")
    ELSE Ok(substitute_string_ranges(str,
                dollar_dollar_ranges(locations, 0),
                dollar_dollar_replacements(str, locations, 0)))

replace_dollar_dollar(str) ==
    dollar_dollar_at(str, Starts(Finditer(str, <<Lit("$$")>>)))

\* a variant that takes every "$" for a delimiter
any_dollar_pattern == <<Lit("$")>>

\* r"(?<!\\)(?:\\{2})*\$"
dollar_pattern == <<NotBehind({"\\"}), Star(Lit("\\\\")), Lit("$")>>

RECURSIVE dollar_ranges(_, _)
dollar_ranges(locations, k) ==
    IF k >= Len(locations) THEN <<>>
    ELSE << <<locations[k + 1] - 1, locations[k + 2]>> >>
         \o dollar_ranges(locations, k + 2)

RECURSIVE dollar_replacements(_, _, _)
dollar_replacements(str, locations, k) ==
    IF k >= Len(locations) THEN <<>>
    ELSE << Chars("\\(")
            \o PySlice(str, locations[k + 1], locations[k + 2] - 1)
            \o Chars("\\)") >>
         \o dollar_replacements(str, locations, k + 2)

\* _replace_dollar once `locations` is computed
dollar_at(str, locations) ==
    IF Len(locations) % 2 # 0 THEN Raise("AssertionError")
    ELSE Ok(substitute_string_ranges(str,
                dollar_ranges(locations, 0),
                dollar_replacements(str, locations, 0)))

dollar_locations(str) == Ends(Finditer(str, dollar_pattern))

replace_dollar(str) == dollar_at(str, dollar_locations(str))

replace_obsolete_text_mods(str) ==
    LET s1 == Replace(str, Chars("{\\bf "), Chars("\\textbf{"))
        s2 == Replace(s1, Chars("{\\it "), Chars("\\textit{"))
        s3 == Replace(s2, Chars("{\\rm "), Chars("\\textrm{"))
        s4 == Replace(s3, Chars("{\\sc "), Chars("\\textsc{"))
        s5 == Replace(s4, Chars("{\\sf "), Chars("\\textsf{"))
        s6 == Replace(s5, Chars("{\\sl "), Chars("\\textsl{"))
        s7 == Replace(s6, Chars("{\\tt "), Chars("\\texttt{"))
    IN  Replace(s7, Chars("{\\em "), Chars("\\emph{"))

add_space_after_single_subsuperscript(str) ==
    Sub(<<Grp(1, <<In({"^"})>>), Grp(2, <<NotIn({"{", "\\"})>>),
          Grp(3, <<NotIn({"_", "^", "$", "}", ")"} \cup WS)>>)>>,
        T(<<"\\1", "\\2", " ", "\\3">>), str)

replace_dots(str) ==
    LET s1 == Sub(<<Lit("...")>>, T(<<"\\dots">>), str)
    IN  Sub(<<Lit(",\\cdots,")>>, T(<<",\\dots,">>), s1)

replace_punctuation_outside_math(str) ==
    LET s1 == Sub(<<Lit(".$")>>, T(<<"$.">>), str)
        s2 == Sub(<<Lit(",$")>>, T(<<"$,">>), s1)
        s3 == Sub(<<Lit(";$")>>, T(<<"$;">>), s2)
        s4 == Sub(<<Lit("!$")>>, T(<<"$!">>), s3)
    IN  Sub(<<Lit("?$")>>, T(<<"$?">>), s4)

remove_whitespace_before_punctuation(str) ==
    LET s1 == Sub(<<Plus(In(WS)), Lit(".")>>, T(<<".">>), str)
        s2 == Sub(<<Plus(In(WS)), Lit(",")>>, T(<<",">>), s1)
        s3 == Sub(<<Plus(In(WS)), Lit(";")>>, T(<<";">>), s2)
        s4 == Sub(<<Plus(In(WS)), Lit("!")>>, T(<<"!">>), s3)
    IN  Sub(<<Plus(In(WS)), Lit("?")>>, T(<<"?">>), s4)

add_nbsp_before_reference(str) ==
    LET s1 == Sub(<<Plus(In(WS)), Lit("\\ref{")>>, T(<<"~\\ref{">>), str)
        s2 == Sub(<<Plus(In(WS)), Lit("\\eqref{")>>, T(<<"~\\eqref{">>), s1)
    IN  Sub(<<Plus(In(WS)), Lit("\\cite")>>, T(<<"~\\cite">>), s2)

replace_double_nbsp(str) == Sub(<<Lit("~~")>>, T(<<"\\quad ">>), str)

replace_nbsp_space(str) ==
    LET s1 == Sub(<<Lit("~ ")>>, T(<<" ">>), str)
    IN  Sub(<<Lit(" ~")>>, T(<<" ">>), s1)

\* the scan to the left of \over for the open {: where k0 ends, or skip
RECURSIVE over_scan_left(_, _, _)
over_scan_left(str, k0, num_open_brackets) ==
    IF num_open_brackets <= 0 THEN [skip |-> FALSE, k0 |-> k0]
    ELSE IF ~InRange(str, k0) THEN [skip |-> TRUE, k0 |-> k0]
    ELSE over_scan_left(str, k0 - 1,
            IF PyAt(str, k0) = "{" THEN num_open_brackets - 1
            ELSE IF PyAt(str, k0) = "}" THEN num_open_brackets + 1
            ELSE num_open_brackets)

\* the scan to the right of \over for the closing }: string[k1] is not guarded
RECURSIVE over_scan_right(_, _, _)
over_scan_right(str, k1, num_open_brackets) ==
    IF num_open_brackets <= 0 THEN [err |-> "none", k1 |-> k1]
    ELSE IF ~InRange(str, k1) THEN [err |-> "IndexError", k1 |-> k1]
    ELSE over_scan_right(str, k1 + 1,
            IF PyAt(str, k1) = "}" THEN num_open_brackets - 1
            ELSE IF PyAt(str, k1) = "{" THEN num_open_brackets + 1
            ELSE num_open_brackets)

frac(num, den) == Chars("\\frac{") \o num \o Chars("}{") \o den \o Chars("}")

\* the excerpt of the warning
over_warning(str, loc) == PySlice(str, Max(0, loc - 20), loc + 24)

\* the for loop of _replace_over from the j-th location on; e holds
\* fracs, ranges and the warnings so far
RECURSIVE over_loop(_, _, _, _)
RECURSIVE over_left_done(_, _, _, _, _)
RECURSIVE over_right_done(_, _, _, _, _, _)
over_loop(str, locations, j, e) ==
    IF j > Len(locations) THEN e
    ELSE over_left_done(str, locations, j, e,
                        over_scan_left(str, locations[j] - 1, 1))

\* after the first while loop of the j-th round
over_left_done(str, locations, j, e, left) ==
    IF left.skip
    THEN over_loop(str, locations, j + 1,
            [e EXCEPT !.warn = Append(@, over_warning(str, locations[j]))])
    ELSE over_right_done(str, locations, j, e, left.k0,
                         over_scan_right(str, locations[j] + 5, 1))

\* after the second while loop of the j-th round
over_right_done(str, locations, j, e, k0, right) ==
    IF right.err # "none" THEN [e EXCEPT !.err = right.err]
    ELSE over_loop(str, locations, j + 1,
            [e EXCEPT
                !.fracs = Append(@,
                    frac(Strip(PySlice(str, k0 + 2, locations[j])),
                         Strip(PySlice(str, locations[j] + 5, right.k1 - 1)))),
                !.ranges = Append(@, <<k0 + 1, right.k1>>)])

\* r"\\over[^a-z]"
over_pattern == <<Lit("\\over"), NotIn(Lower)>>

over_locations(str) == Starts(Finditer(str, over_pattern))

\* what _replace_over hands to _substitute_string_ranges, or the exception
replace_over_edits(str) ==
    over_loop(str, over_locations(str), 1,
              [err |-> "none", fracs |-> <<>>, ranges |-> <<>>, warn |-> <<>>])

\* the return statement of _replace_over
over_return(str, e) ==
    IF e.err # "none" THEN [err |-> e.err, val |-> <<>>, warn |-> e.warn]
    ELSE [err |-> "none", warn |-> e.warn,
          val |-> substitute_string_ranges(str, e.ranges, e.fracs)]

replace_over(str) == over_return(str, replace_over_edits(str))

\* r"([+-]?([0-9]*[.])?[0-9]+)[ \t]*\\%"
si_percentage(str) ==
    Sub(<<Grp(1, <<Opt(In({"+", "-"})),
                   Opt(Grp(2, <<Star(In(Digits)), In({"."})>>)),
                   Plus(In(Digits))>>),
          Star(In({" ", "\t"})), Lit("\\%")>>,
        T(<<"\\SI{", "\\1", "}{\\%}">>), str)

add_linebreak_after_double_backslash(str) ==
    Sub(<<Lit("\\\\"), Grp(1, <<NotIn({"\n"})>>)>>, T(<<"\\\\\n", "\\1">>), str)

Letters == Lower \cup Upper

keywords == <<"max", "min", "log", "sin", "cos", "exp">>

\* the locations that are not behind a backslash
not_escaped(str, locations) ==
    SelectSeq(locations, LAMBDA loc : PyAt(str, loc) # "\\")

\* what one keyword adds to the list `insert`
keyword_inserts(str, keyword) ==
    not_escaped(str,
        Starts(Finditer(str, <<NotIn(Letters), Lit(keyword), NotIn(Letters)>>)))

\* the list `insert`: keyword by keyword, each keyword's locations in order
keywords_insert(str) ==
    Flatten([n \in 1..Len(keywords) |-> keyword_inserts(str, keywords[n])])

\* [(i + 1, i + 1) for i in insert]
insert_ranges(insert, d) ==
    [j \in 1..Len(insert) |-> <<insert[j] + d, insert[j] + d>>]

add_backslash_for_keywords_ranges(str) == insert_ranges(keywords_insert(str), 1)

\* len(insert) * ["\\"]
backslashes(rngs) == [j \in 1..Len(rngs) |-> <<"\\">>]

keywords_return(str, rngs) == substitute_string_ranges(str, rngs, backslashes(rngs))

add_backslash_for_keywords(str) ==
    keywords_return(str, add_backslash_for_keywords_ranges(str))

\* the scan to the left of )^ for the open (: string[k] is not guarded
RECURSIVE round_scan_left(_, _, _)
round_scan_left(str, k, num_open_brackets) ==
    IF num_open_brackets <= 0 THEN [err |-> "none", k |-> k]
    ELSE IF ~InRange(str, k) THEN [err |-> "IndexError", k |-> k]
    ELSE round_scan_left(str, k - 1,
            IF PyAt(str, k) = "(" THEN num_open_brackets - 1
            ELSE IF PyAt(str, k) = ")" THEN num_open_brackets + 1
            ELSE num_open_brackets)

\* where the { goes: k, or k - 5 behind a \left
open_at(str, k) ==
    IF k - 5 >= 0 /\ PySlice(str, k - 5, k) = Chars("\\left") THEN k - 5 ELSE k

\* the for loop of the exponent pass from the j-th location on; e holds
\* insert and replacements so far
RECURSIVE round_loop(_, _, _, _)
RECURSIVE round_scan_done(_, _, _, _, _)
round_loop(str, locations, j, e) ==
    IF j > Len(locations) THEN e
    ELSE round_scan_done(str, locations, j, e,
                         round_scan_left(str, locations[j] - 1, 1))

\* after the while loop of the j-th round
round_scan_done(str, locations, j, e, scan) ==
    IF scan.err # "none" THEN [e EXCEPT !.err = scan.err]
    ELSE round_loop(str, locations, j + 1,
            [e EXCEPT
                !.insert = @ \o <<open_at(str, scan.k + 1), locations[j] + 1>>,
                !.replacements = @ \o << <<"{">>, <<"}">> >>])

round_locations(str) == Starts(Finditer(str, <<Lit(")^")>>))

\* the lists `insert` and `replacements` of the exponent pass, or the exception
round_brackets_edits(str) ==
    round_loop(str, round_locations(str), 1,
               [err |-> "none", insert |-> <<>>, replacements |-> <<>>])

\* the return statement of the exponent pass
round_return(str, e) ==
    IF e.err # "none" THEN Raise(e.err)
    ELSE Ok(substitute_string_ranges(str, insert_ranges(e.insert, 0),
                                     e.replacements))

add_curly_brackets_around_round_brackets_with_exponent(str) ==
    round_return(str, round_brackets_edits(str))

\* f"\\newcommand{{{string[m.start() + 4 : m.end()]}}}" for each match
newcommands(str, ms) ==
    [j \in 1..Len(ms) |->
        Chars("\\newcommand{") \o PySlice(str, ms[j][1] + 4, ms[j][2])
        \o Chars("}")]

def_return(str, ms) == substitute_string_ranges(str, ms, newcommands(str, ms))

replace_def_by_newcommand(str) ==
    def_return(str, Finditer(str, <<Lit("\\def\\"), Plus(In(Letters))>>))

\* ([^\n ]) *(lit)  and  (lit) *([^\n ]), a line break put in between
break_before(lit) == <<Grp(1, <<NotIn({"\n", " "})>>), Star(Lit(" ")), Grp(2, lit)>>

break_after(lit) == <<Grp(1, lit), Star(Lit(" ")), Grp(2, <<NotIn({"\n", " "})>>)>>

\* \\begin{.*?}
begin_env == <<Lit("\\begin{"), LazyStar(Dot), Lit("}")>>

end_env == <<Lit("\\end{"), LazyStar(Dot), Lit("}")>>

\* r"\1\n\2"
break_template == T(<<"\\1", "\n", "\\2">>)

add_linebreak_around_begin_end(str) ==
    LET s1 == Sub(break_before(begin_env), break_template, str)
        s2 == Sub(break_after(begin_env), break_template, s1)
        s3 == Sub(break_before(end_env), break_template, s2)
        s4 == Sub(break_after(end_env), break_template, s3)
        s5 == Sub(break_before(<<Lit("\\[")>>), break_template, s4)
        s6 == Sub(break_after(<<Lit("\\[")>>), break_template, s5)
        s7 == Sub(break_before(<<Lit("\\]")>>), break_template, s6)
    IN  Sub(break_after(<<Lit("\\]")>>), break_template, s7)

replace_centerline(str) ==
    Sub(<<Lit("\\centerline{")>>, T(<<"{\\centering ">>), str)

replace_eqnarray(str) == Sub(<<Lit("eqnarray")>>, T(<<"align">>), str)

\* \[.*?\]
bracket_spec == <<Lit("["), LazyStar(Dot), Lit("]")>>

put_spec_on_same_line_as_environment(str) ==
    LET s1 == Sub(<<Grp(1, begin_env), Star(In(WS)), Grp(2, bracket_spec),
                    Lit("\n")>>,
                  T(<<"\\1", "\\2">>), str)
    IN  Sub(<<Grp(1, begin_env), Star(In(WS)), Grp(2, bracket_spec),
              Grp(3, <<NotIn({"\n"})>>)>>,
            T(<<"\\1", "\\2", "\n", "\\3">>), s1)

\* \\label{.*?}
label == <<Lit("\\label{"), LazyStar(Dot), Lit("}")>>

put_label_on_same_line_as_environment(str) ==
    LET s1 == Sub(<<Grp(1, begin_env), Opt(Grp(2, bracket_spec)), Plus(In(WS)),
                    Grp(3, label), Opt(Grp(4, <<Lit("\n")>>))>>,
                  T(<<"\\1", "\\2", "\\3", "\\4">>), str)
        s2 == Sub(<<Grp(1, <<Lit("\\section{"), LazyStar(Dot), Lit("}")>>),
                    Plus(In(WS)), Grp(2, label), Opt(Grp(3, <<Lit("\n")>>))>>,
                  T(<<"\\1", "\\2", "\\3">>), s1)
    IN  Sub(<<Grp(1, <<Lit("\\subsection{"), LazyStar(Dot), Lit("}")>>),
              Plus(In(WS)), Grp(2, label), Opt(Grp(3, <<Lit("\n")>>))>>,
            T(<<"\\1", "\\2", "\\3">>), s2)

replace_colon_equal_by_coloneqq(str) ==
    LET s1 == Sub(<<Lit(":"), Star(In(WS)), Lit("=")>>, T(<<"\\coloneqq ">>), str)
    IN  Sub(<<Lit("="), Star(In(WS)), Lit(":")>>, T(<<"\\eqqcolon ">>), s1)

remove_space_before_tabular_column_specification(str) ==
    Sub(<<Grp(1, <<Lit("\\begin{tabular}")>>), Star(In(WS)),
          Grp(2, <<Lit("{"), LazyStar(Dot), Lit("}")>>)>>,
        T(<<"\\1", "\\2">>), str)

add_spaces_around_equality_sign(str) ==
    LET s1 == Sub(<<Grp(1, <<NotIn(WS \cup {"&"})>>), Lit("=")>>,
                  T(<<"\\1", " ", "=">>), str)
        s2 == Sub(<<Grp(1, <<NotIn(WS)>>), Lit("&=")>>,
                  T(<<"\\1", " ", "&=">>), s1)
        s3 == Sub(<<Lit("="), Grp(1, <<NotIn(WS \cup {"&"})>>)>>,
                  T(<<"=", " ", "\\1">>), s2)
    IN  Sub(<<Lit("=&"), Grp(1, <<NotIn(WS)>>)>>, T(<<"=&", " ", "\\1">>), s3)

(***************************************************************************)
(* clean(): the passes in order.  pass_at(n, ...) is the n-th statement    *)
(* after `out = string`; a pass that raises ends the call.                 *)
(***************************************************************************)
NumPasses == 29

pass_at(n, o, kc, kd) ==
    CASE n = 1  -> Ok(remove_trailing_whitespace(o))
      [] n = 2  -> IF ~kc THEN Ok(remove_comments(o)) ELSE Ok(o)
      [] n = 3  -> Ok(replace_punctuation_outside_math(o))
      [] n = 4  -> replace_dollar_dollar(o)
      [] n = 5  -> IF ~kd THEN replace_dollar(o) ELSE Ok(o)
      [] n = 6  -> Ok(replace_obsolete_text_mods(o))
      [] n = 7  -> Ok(remove_whitespace_around_brackets(o))
      [] n = 8  -> Ok(add_space_after_single_subsuperscript(o))
      [] n = 9  -> Ok(replace_dots(o))
      [] n = 10 -> Ok(remove_whitespace_before_punctuation(o))
      [] n = 11 -> Ok(add_nbsp_before_reference(o))
      [] n = 12 -> Ok(replace_double_nbsp(o))
      [] n = 13 -> Ok(replace_nbsp_space(o))
      [] n = 14 -> replace_over(o)
      [] n = 15 -> Ok(si_percentage(o))
      [] n = 16 -> Ok(add_linebreak_after_double_backslash(o))
      [] n = 17 -> Ok(add_backslash_for_keywords(o))
      [] n = 18 -> add_curly_brackets_around_round_brackets_with_exponent(o)
      [] n = 19 -> Ok(replace_def_by_newcommand(o))
      [] n = 20 -> Ok(add_linebreak_around_begin_end(o))
      [] n = 21 -> Ok(replace_centerline(o))
      [] n = 22 -> Ok(replace_eqnarray(o))
      [] n = 23 -> Ok(put_spec_on_same_line_as_environment(o))
      [] n = 24 -> Ok(put_label_on_same_line_as_environment(o))
      [] n = 25 -> Ok(replace_colon_equal_by_coloneqq(o))
      [] n = 26 -> Ok(remove_space_before_tabular_column_specification(o))
      [] n = 27 -> Ok(add_spaces_around_equality_sign(o))
      [] n = 28 -> Ok(remove_multiple_newlines(o))
      [] n = 29 -> Ok(remove_multiple_spaces(o))

\* the statements n .. m of clean, in order
RECURSIVE clean_range(_, _, _, _, _, _)
RECURSIVE clean_after(_, _, _, _, _, _)
clean_range(n, m, o, kc, kd, warn) ==
    IF n > m THEN [err |-> "none", val |-> o, warn |-> warn]
    ELSE clean_after(n, m, pass_at(n, o, kc, kd), kc, kd, warn)

\* r: what the n-th statement handed back
clean_after(n, m, r, kc, kd, warn) ==
    IF r.err # "none" THEN [err |-> r.err, val |-> <<>>, warn |-> warn \o r.warn]
    ELSE clean_range(n + 1, m, r.val, kc, kd, warn \o r.warn)

clean(str, kc, kd) == clean_range(1, NumPasses, str, kc, kd, <<>>)

(***************************************************************************)
(* Input texts: the concatenations of at most n tokens                     *)
(***************************************************************************)
TokenSeqs(tokens, n) == UNION {[1..m -> tokens] : m \in 0..n}

Text(ts) == Flatten([i \in 1..Len(ts) |-> Chars(ts[i])])

Texts(tokens, n) == {Text(ts) : ts \in TokenSeqs(tokens, n)}

(***************************************************************************)
(* Specification Spec: a call clean(string, keep_comments, keep_dollar),   *)
(* one step per pass, and a second call on the text the first returned.    *)
(***************************************************************************)
MaxCleanLen == 4

CleanTokens == {"a", "=", "$", ")^", ":", " "}

\* the variables a specification does not use
IdleCall == ranges = <<>> /\ replacements = <<>>

IdleClean == keep_comments = FALSE /\ keep_dollar = FALSE /\ first = <<>> /\ round = 0

IdleFiles ==
    /\ files = <<>>
    /\ writes = <<>>
    /\ return_values = <<>>
    /\ infiles = <<>>
    /\ todo = <<>>
    /\ return_code = 0
    /\ status = <<>>
    /\ invocations = 0

callVars == <<ranges, replacements>>

cleanVars == <<keep_comments, keep_dollar, first, round>>

fileVars == <<files, writes, return_values, infiles, todo, return_code, status,
              invocations>>

Init ==
    /\ string \in Texts(CleanTokens, MaxCleanLen)
    /\ keep_comments \in BOOLEAN
    /\ keep_dollar \in BOOLEAN
    /\ out = string
    /\ pc = 1
    /\ raised = "none"
    /\ warned = <<>>
    /\ first = <<>>
    /\ round = 1
    /\ IdleCall
    /\ IdleFiles

\* a pass of clean: r is what the n-th statement hands back
Step(n, r) ==
    /\ pc = n
    /\ raised = "none"
    /\ IF r.err # "none"
       THEN /\ raised' = r.err
            /\ UNCHANGED <<out, pc, warned>>
       ELSE /\ out' = r.val
            /\ pc' = n + 1
            /\ warned' = warned \o r.warn
            /\ UNCHANGED raised
    /\ UNCHANGED <<string, keep_comments, keep_dollar, first, round>>
    /\ UNCHANGED <<callVars, fileVars>>

RemoveTrailingWhitespace == Step(1, Ok(remove_trailing_whitespace(out)))

RemoveComments ==
    Step(2, IF ~keep_comments THEN Ok(remove_comments(out)) ELSE Ok(out))

ReplacePunctuationOutsideMath ==
    Step(3, Ok(replace_punctuation_outside_math(out)))

ReplaceDollarDollar == Step(4, replace_dollar_dollar(out))

ReplaceDollar == Step(5, IF ~keep_dollar THEN replace_dollar(out) ELSE Ok(out))

ReplaceObsoleteTextMods == Step(6, Ok(replace_obsolete_text_mods(out)))

RemoveWhitespaceAroundBrackets ==
    Step(7, Ok(remove_whitespace_around_brackets(out)))

AddSpaceAfterSingleSubsuperscript ==
    Step(8, Ok(add_space_after_single_subsuperscript(out)))

ReplaceDots == Step(9, Ok(replace_dots(out)))

RemoveWhitespaceBeforePunctuation ==
    Step(10, Ok(remove_whitespace_before_punctuation(out)))

AddNbspBeforeReference == Step(11, Ok(add_nbsp_before_reference(out)))

ReplaceDoubleNbsp == Step(12, Ok(replace_double_nbsp(out)))

ReplaceNbspSpace == Step(13, Ok(replace_nbsp_space(out)))

ReplaceOver == Step(14, replace_over(out))

SiPercentage == Step(15, Ok(si_percentage(out)))

AddLinebreakAfterDoubleBackslash ==
    Step(16, Ok(add_linebreak_after_double_backslash(out)))

AddBackslashForKeywords == Step(17, Ok(add_backslash_for_keywords(out)))

AddCurlyBracketsAroundRoundBracketsWithExponent ==
    Step(18, add_curly_brackets_around_round_brackets_with_exponent(out))

ReplaceDefByNewcommand == Step(19, Ok(replace_def_by_newcommand(out)))

AddLinebreakAroundBeginEnd == Step(20, Ok(add_linebreak_around_begin_end(out)))

ReplaceCenterline == Step(21, Ok(replace_centerline(out)))

ReplaceEqnarray == Step(22, Ok(replace_eqnarray(out)))

PutSpecOnSameLineAsEnvironment ==
    Step(23, Ok(put_spec_on_same_line_as_environment(out)))

PutLabelOnSameLineAsEnvironment ==
    Step(24, Ok(put_label_on_same_line_as_environment(out)))

ReplaceColonEqualByColoneqq ==
    Step(25, Ok(replace_colon_equal_by_coloneqq(out)))

RemoveSpaceBeforeTabularColumnSpecification ==
    Step(26, Ok(remove_space_before_tabular_column_specification(out)))

AddSpacesAroundEqualitySign ==
    Step(27, Ok(add_spaces_around_equality_sign(out)))

RemoveMultipleNewlines == Step(28, Ok(remove_multiple_newlines(out)))

RemoveMultipleSpaces == Step(29, Ok(remove_multiple_spaces(out)))

Returned == pc = NumPasses + 1 /\ raised = "none"

\* clean is called on the text it returned
CleanAgain ==
    /\ Returned
    /\ round = 1
    /\ first' = out
    /\ string' = out
    /\ pc' = 1
    /\ round' = 2
    /\ UNCHANGED <<out, raised, warned, keep_comments, keep_dollar>>
    /\ UNCHANGED <<callVars, fileVars>>

Next ==
    \/ RemoveTrailingWhitespace
    \/ RemoveComments
    \/ ReplacePunctuationOutsideMath
    \/ ReplaceDollarDollar
    \/ ReplaceDollar
    \/ ReplaceObsoleteTextMods
    \/ RemoveWhitespaceAroundBrackets
    \/ AddSpaceAfterSingleSubsuperscript
    \/ ReplaceDots
    \/ RemoveWhitespaceBeforePunctuation
    \/ AddNbspBeforeReference
    \/ ReplaceDoubleNbsp
    \/ ReplaceNbspSpace
    \/ ReplaceOver
    \/ SiPercentage
    \/ AddLinebreakAfterDoubleBackslash
    \/ AddBackslashForKeywords
    \/ AddCurlyBracketsAroundRoundBracketsWithExponent
    \/ ReplaceDefByNewcommand
    \/ AddLinebreakAroundBeginEnd
    \/ ReplaceCenterline
    \/ ReplaceEqnarray
    \/ PutSpecOnSameLineAsEnvironment
    \/ PutLabelOnSameLineAsEnvironment
    \/ ReplaceColonEqualByColoneqq
    \/ RemoveSpaceBeforeTabularColumnSpecification
    \/ AddSpacesAroundEqualitySign
    \/ RemoveMultipleNewlines
    \/ RemoveMultipleSpaces
    \/ CleanAgain

Spec == Init /\ [][Next]_vars

\* C1: clean(clean(s)) = clean(s) for every s on which clean(s) returns,
\* with the default flags: the second call returns, and returns its argument.
C1_Idempotence ==
    (round = 2 /\ ~keep_comments /\ ~keep_dollar)
        => /\ raised = "none"
           /\ pc = NumPasses + 1 => out = first

\* C2: clean raises only where a delimiter pass (the 4th or the 5th statement)
\* counts an odd number of math delimiters, and then with an explicit error;
\* on every other text it returns.
C2_TotalButForOddDelimiters ==
    raised # "none" => /\ raised = "AssertionError"
                       /\ pc \in {4, 5}

\* whether the i-th character of o is a "=" next to a character that is
\* neither whitespace nor "&"
Touches(o, i) ==
    /\ o[i] = "="
    /\ \/ i > 1 /\ o[i - 1] \notin WS \cup {"&"}
       \/ i < Len(o) /\ o[i + 1] \notin WS \cup {"&"}

\* C8: in the text clean returns for an input, no "=" directly touches a
\* character that is neither whitespace nor "&" (the claim's last clause,
\* which its "exactly one space on each side" implies).
C8_EqualitySpacing ==
    (round = 1 /\ Returned) => \A i \in 1..Len(out) : ~Touches(out, i)

(***************************************************************************)
(* Specification SpecSubstitute: one call of _substitute_string_ranges     *)
(* with ranges in ascending order that do not overlap.                     *)
(***************************************************************************)
MaxTextLen == 5

MaxRanges == 2

Alphabet == Chars("abcdefgh")

Ascending(rngs, n) ==
    /\ \A j \in 1..Len(rngs) :
          0 <= rngs[j][1] /\ rngs[j][1] <= rngs[j][2] /\ rngs[j][2] <= n
    /\ \A j \in 1..(Len(rngs) - 1) : rngs[j][2] <= rngs[j + 1][1]

RangeLists(n) ==
    UNION {{rs \in [1..k -> (0..n) \X (0..n)] : Ascending(rs, n)} : k \in 0..MaxRanges}

Replacement == {<<>>, <<"X">>, <<"Y", "Z">>}

InitSubstitute ==
    /\ \E n \in 0..MaxTextLen : string = SubSeq(Alphabet, 1, n)
    /\ ranges \in RangeLists(Len(string))
    /\ replacements \in [1..Len(ranges) -> Replacement]
    /\ out = <<>>
    /\ pc = "call"
    /\ raised = "none"
    /\ warned = <<>>
    /\ IdleClean
    /\ IdleFiles

Substitute ==
    /\ pc = "call"
    /\ out' = substitute_string_ranges(string, ranges, replacements)
    /\ pc' = "done"
    /\ UNCHANGED <<string, raised, warned, ranges, replacements>>
    /\ UNCHANGED <<cleanVars, fileVars>>

NextSubstitute == Substitute

SpecSubstitute == InitSubstitute /\ [][NextSubstitute]_vars

\* The text read off character by character: at the start of the j-th range
\* its replacement, and then on from the end of the range; every other
\* character once.
RECURSIVE Spliced(_, _, _, _, _)
Spliced(str, rngs, reps, i, j) ==
    IF j <= Len(rngs) /\ rngs[j][1] = i
    THEN reps[j] \o Spliced(str, rngs, reps, rngs[j][2], j + 1)
    ELSE IF i < Len(str)
    THEN <<str[i + 1]>> \o Spliced(str, rngs, reps, i + 1, j)
    ELSE <<>>

\* C5: for ranges in ascending order that do not overlap, the result is the
\* text with each range replaced by its replacement and every character outside
\* the ranges kept once and in order; with no range it is the text.
C5_BatchedSubstitution ==
    pc = "done" => /\ out = Spliced(string, ranges, replacements, 0, 1)
                   /\ ranges = <<>> => out = string

C5_Witness ==
    /\ pc = "done"
    /\ Len(ranges) = 2
    /\ ranges[1][1] > 0 /\ ranges[1][2] < ranges[2][1] /\ ranges[2][2] < Len(string)
    /\ ranges[1][1] < ranges[1][2]
    /\ replacements[1] # <<>>
    /\ out # string

(***************************************************************************)
(* Specification SpecDollar: one call of _replace_dollar, or one call of   *)
(* clean.                                                                  *)
(***************************************************************************)
MaxDollarLen == 4

DollarTokens == {"$", "\\", "a", "%", "."}

InitDollar ==
    /\ string \in Texts(DollarTokens, MaxDollarLen)
    /\ pc \in {"replace_dollar", "clean"}
    /\ keep_comments \in (IF pc = "clean" THEN BOOLEAN ELSE {FALSE})
    /\ keep_dollar \in (IF pc = "clean" THEN BOOLEAN ELSE {FALSE})
    /\ out = <<>>
    /\ raised = "none"
    /\ warned = <<>>
    /\ first = <<>>
    /\ round = 0
    /\ IdleCall
    /\ IdleFiles

\* a call returns r.val or raises r.err
Call(from, to, r) ==
    /\ pc = from
    /\ pc' = to
    /\ out' = r.val
    /\ raised' = r.err
    /\ warned' = r.warn
    /\ UNCHANGED <<string, ranges, replacements>>
    /\ UNCHANGED <<cleanVars, fileVars>>

CallReplaceDollar == Call("replace_dollar", "replace_dollar done", replace_dollar(string))

CallClean == Call("clean", "clean done", clean(string, keep_comments, keep_dollar))

NextDollar == CallReplaceDollar \/ CallClean

SpecDollar == InitDollar /\ [][NextDollar]_vars

\* the number of backslashes that end directly before offset i
RECURSIVE BackslashesBefore(_, _)
BackslashesBefore(str, i) ==
    IF i > 0 /\ str[i] = "\\" THEN 1 + BackslashesBefore(str, i - 1) ELSE 0

\* the character at offset i is a "$" behind an even number of backslashes
IsDelimiter(str, i) == str[i + 1] = "$" /\ BackslashesBefore(str, i) % 2 = 0

NumDelimiters(str) == Cardinality({i \in 0..(Len(str) - 1) : IsDelimiter(str, i)})

\* the text from offset i on with its delimiters turned into \( and \) in
\* turn, n of them being to the left of i
RECURSIVE Paired(_, _, _)
Paired(str, i, n) ==
    IF i >= Len(str) THEN <<>>
    ELSE IF IsDelimiter(str, i)
    THEN Chars(IF n % 2 = 0 THEN "\\(" ELSE "\\)") \o Paired(str, i + 1, n + 1)
    ELSE <<str[i + 1]>> \o Paired(str, i + 1, n)

NumDollars(str) == Cardinality({i \in 1..Len(str) : str[i] = "$"})

\* the "$" of str that are not part of a "$$"
NumSingleDollars(str) == NumDollars(str) - 2 * Len(Finditer(str, <<Lit("$$")>>))

\* C6 as it stands: what C6_InlineMath says of _replace_dollar, and of clean
\* with keep_dollar: each "$" of the input that is not part of a "$$" is a "$"
\* of the output.
C6_KeepDollarKeepsEveryDollar ==
    (pc = "clean done" /\ keep_dollar /\ raised = "none")
        => NumDollars(out) >= NumSingleDollars(string)

\* C6, amended: _replace_dollar takes a "$" for a delimiter exactly when an
\* even number of backslashes stands before it, and replaces the delimiters in
\* turn by \( and \), all else unchanged (an odd number of them raises);
\* clean with keep_dollar leaves out this pass: the statements after the $$
\* pass remove no "$" of the text.
C6_InlineMath ==
    /\ pc = "replace_dollar done" =>
          /\ raised = "none" <=> NumDelimiters(string) % 2 = 0
          /\ raised = "none" => out = Paired(string, 0, 0)
    /\ (pc = "clean done" /\ keep_dollar /\ raised = "none") =>
          /\ clean_range(5, 5, string, keep_comments, keep_dollar, <<>>).val = string
          /\ NumDollars(out) >=
                NumDollars(clean_range(1, 4, string, keep_comments, keep_dollar, <<>>).val)

C6_Witness ==
    /\ pc = "replace_dollar done"
    /\ raised = "none"
    /\ NumDelimiters(string) = 2
    /\ NumDollars(string) = 3
    /\ out # string

(***************************************************************************)
(* Specification SpecComments: one call of _remove_comments.               *)
(***************************************************************************)
MaxCommentLen == 6

CommentTokens == {"%", "\\", " ", "a", "\n"}

InitComments ==
    /\ string \in Texts(CommentTokens, MaxCommentLen)
    /\ pc = "remove_comments"
    /\ out = <<>>
    /\ raised = "none"
    /\ warned = <<>>
    /\ IdleClean
    /\ IdleCall
    /\ IdleFiles

CallRemoveComments ==
    Call("remove_comments", "remove_comments done", Ok(remove_comments(string)))

NextComments == CallRemoveComments

SpecComments == InitComments /\ [][NextComments]_vars

\* the first non-whitespace character of the line is a "%"
CommentLine(line) ==
    \E j \in 1..Len(line) :
        line[j] = "%" /\ \A h \in 1..(j - 1) : line[h] \in WS

\* the positions of the "%" of the line with no backslash directly before
Unescaped(line) ==
    {j \in 1..Len(line) : line[j] = "%" /\ (j = 1 \/ line[j - 1] # "\\")}

\* the line up to position j, without the spaces and tabs at its end
RECURSIVE Before(_, _)
Before(line, j) ==
    IF j > 1 /\ line[j - 1] \in {" ", "\t"} THEN Before(line, j - 1)
    ELSE SubSeq(line, 1, j - 1)

\* the line cut at the first of the positions js, if any
CutAt(line, js) ==
    IF js = {} THEN line
    ELSE Before(line, CHOOSE j \in js : \A h \in js : j <= h)

\* the positions at which a line is cut: the unescaped "%", those that end the
\* line included or not
Cuts(line, last) ==
    IF last THEN Unescaped(line) ELSE Unescaped(line) \ {Len(line)}

\* the lines that are no comment lines, each cut at its first cut
RECURSIVE CutLines(_, _)
CutLines(lines, last) ==
    IF lines = <<>> THEN <<>>
    ELSE (IF CommentLine(Head(lines)) THEN <<>>
          ELSE <<CutAt(Head(lines), Cuts(Head(lines), last))>>)
         \o CutLines(Tail(lines), last)

MaxOverLen == 6

MaxRoundLen == 5

MaxKeywordLen == 5

OverTokens == {"{", "}", "\\over ", "a"}

RoundTokens == {"(", "a", ")^", "\\left("}

KeywordTokens == {" ", "min", "max", "\\", "a"}

InitBrackets ==
    /\ pc \in {"replace_over", "add_backslash_for_keywords", "add_curly_brackets"}
    /\ string \in (IF pc = "replace_over" THEN Texts(OverTokens, MaxOverLen)
                   ELSE IF pc = "add_curly_brackets"
                   THEN Texts(RoundTokens, MaxRoundLen)
                   ELSE Texts(KeywordTokens, MaxKeywordLen))
    /\ out = <<>>
    /\ raised = "none"
    /\ warned = <<>>
    /\ IdleCall
    /\ IdleClean
    /\ IdleFiles

\* the function has its ranges and replacements, or has raised
Collect(from, to, err, warn, rngs, reps) ==
    /\ pc = from
    /\ warned' = warn
    /\ IF err # "none"
       THEN /\ raised' = err
            /\ pc' = "raised"
            /\ UNCHANGED <<ranges, replacements>>
       ELSE /\ pc' = to
            /\ ranges' = rngs
            /\ replacements' = reps
            /\ UNCHANGED raised
    /\ UNCHANGED <<string, out>>
    /\ UNCHANGED <<cleanVars, fileVars>>

\* the return statement: _substitute_string_ranges(string, ranges, replacements)
Return(from, to) ==
    /\ pc = from
    /\ pc' = to
    /\ out' = substitute_string_ranges(string, ranges, replacements)
    /\ UNCHANGED <<string, raised, warned, ranges, replacements>>
    /\ UNCHANGED <<cleanVars, fileVars>>

OverCollected(e) ==
    Collect("replace_over", "replace_over return", e.err, e.warn, e.ranges, e.fracs)

ReplaceOverCollect == OverCollected(replace_over_edits(string))

ReplaceOverReturn == Return("replace_over return", "replace_over done")

KeywordsCollected(rngs) ==
    Collect("add_backslash_for_keywords", "add_backslash_for_keywords return",
            "none", <<>>, rngs, backslashes(rngs))

KeywordsCollect == KeywordsCollected(add_backslash_for_keywords_ranges(string))

KeywordsReturn ==
    Return("add_backslash_for_keywords return", "add_backslash_for_keywords done")

RoundCollected(e) ==
    Collect("add_curly_brackets", "add_curly_brackets return", e.err, <<>>,
            insert_ranges(e.insert, 0), e.replacements)

RoundCollect == RoundCollected(round_brackets_edits(string))

RoundReturn == Return("add_curly_brackets return", "add_curly_brackets done")

NextBrackets ==
    \/ ReplaceOverCollect
    \/ ReplaceOverReturn
    \/ KeywordsCollect
    \/ KeywordsReturn
    \/ RoundCollect
    \/ RoundReturn

SpecBrackets == InitBrackets /\ [][NextBrackets]_vars

\* the offset of the open bracket that matches, n brackets being open, looking
\* from offset k to the left and no further than the beginning; -1 if none
RECURSIVE OpenLeftOf(_, _, _, _, _)
OpenLeftOf(str, k, n, open, close) ==
    IF k < 0 THEN -1
    ELSE IF str[k + 1] = open
    THEN (IF n = 1 THEN k ELSE OpenLeftOf(str, k - 1, n - 1, open, close))
    ELSE OpenLeftOf(str, k - 1, IF str[k + 1] = close THEN n + 1 ELSE n,
                    open, close)

\* the offset of the closing bracket that matches, looking from offset k to
\* the right and no further than the end; -1 if none
RECURSIVE CloseRightOf(_, _, _, _, _)
CloseRightOf(str, k, n, open, close) ==
    IF k >= Len(str) THEN -1
    ELSE IF str[k + 1] = close
    THEN (IF n = 1 THEN k ELSE CloseRightOf(str, k + 1, n - 1, open, close))
    ELSE CloseRightOf(str, k + 1, IF str[k + 1] = open THEN n + 1 ELSE n,
                      open, close)

\* the \over at loc stands in a brace group of the text
OverMatched(str, loc) ==
    /\ OpenLeftOf(str, loc - 1, 1, "{", "}") >= 0
    /\ CloseRightOf(str, loc + 5, 1, "{", "}") >= 0

\* the span of that group
OverSpan(str, loc) ==
    <<OpenLeftOf(str, loc - 1, 1, "{", "}"),
      CloseRightOf(str, loc + 5, 1, "{", "}") + 1>>

\* the )^ at loc closes a round bracket of the text
RoundMatched(str, loc) == OpenLeftOf(str, loc - 1, 1, "(", ")") >= 0

MatchedOvers(str) ==
    SelectSeq(over_locations(str), LAMBDA loc : OverMatched(str, loc))

UnmatchedOvers(str) ==
    SelectSeq(over_locations(str), LAMBDA loc : ~OverMatched(str, loc))

MatchedRounds(str) ==
    SelectSeq(round_locations(str), LAMBDA loc : RoundMatched(str, loc))

UnmatchedRounds(str) ==
    SelectSeq(round_locations(str), LAMBDA loc : ~RoundMatched(str, loc))

\* the two places at which the exponent pass is to insert for the )^ at loc
RoundInserts(str, loc) ==
    << <<open_at(str, OpenLeftOf(str, loc - 1, 1, "(", ")")),
         open_at(str, OpenLeftOf(str, loc - 1, 1, "(", ")"))>>,
       <<loc + 1, loc + 1>> >>

\* C3: a bracket scan of _replace_over or of the exponent pass that reaches
\* the beginning or the end of the text does not raise; the pass warns once for
\* that occurrence, has no range for it, and has the ranges of every occurrence
\* whose brackets match within the text.
C3_UnmatchedScanIsSkipped ==
    /\ raised = "none"
    /\ pc = "replace_over return" =>
          /\ Len(warned) = Len(UnmatchedOvers(string))
          /\ ranges = [j \in 1..Len(MatchedOvers(string)) |->
                          OverSpan(string, MatchedOvers(string)[j])]
    /\ pc = "add_curly_brackets return" =>
          /\ Len(warned) = Len(UnmatchedRounds(string))
          /\ ranges = Flatten([j \in 1..Len(MatchedRounds(string)) |->
                          RoundInserts(string, MatchedRounds(string)[j])])

\* C10: the ranges that _add_backslash_for_keywords, the exponent pass and
\* _replace_over hand to _substitute_string_ranges are in ascending order, do
\* not overlap and lie within the text.
C10_RangesAscending ==
    pc \in {"replace_over return", "add_backslash_for_keywords return",
            "add_curly_brackets return"}
        => Ascending(ranges, Len(string))

\* the depth of braces at the end of the text, from depth d; -1 once a brace
\* closes that was not opened
RECURSIVE Depth(_, _)
Depth(str, d) ==
    IF d < 0 \/ str = <<>> THEN d
    ELSE Depth(Tail(str),
               IF Head(str) = "{" THEN d + 1
               ELSE IF Head(str) = "}" THEN d - 1 ELSE d)

Balanced(str) == Depth(str, 0) = 0

\* the offsets of the \over of the text that are in no brace group of it
OversAtTop(str) ==
    SelectSeq(over_locations(str),
              LAMBDA loc : Depth(SubSeq(str, 1, loc), 0) = 0)

\* every \over is in a brace group, and is the only one of its group
Grouped(str) ==
    /\ Balanced(str)
    /\ OversAtTop(str) = <<>>
    /\ \A j, h \in 1..Len(over_locations(str)) :
          j # h => OverSpan(str, over_locations(str)[j])
                      # OverSpan(str, over_locations(str)[h])

\* the text with its brace groups {num \over den} as \frac{num}{den}, the
\* groups within num and den likewise
RECURSIVE Fractions(_)
RECURSIVE FractionOf(_, _)
RECURSIVE FractionsFrom(_, _)
Fractions(str) ==
    IF str = <<>> THEN <<>>
    ELSE IF Head(str) = "{"
    THEN FractionsFrom(str, CloseRightOf(str, 1, 1, "{", "}"))
    ELSE <<Head(str)>> \o Fractions(Tail(str))

\* the text begins with a brace group that ends at offset m
FractionsFrom(str, m) ==
    FractionOf(SubSeq(str, 2, m), OversAtTop(SubSeq(str, 2, m)))
    \o Fractions(SubSeq(str, m + 2, Len(str)))

\* the brace group of this body, whose own \over are at the offsets locs
FractionOf(body, locs) ==
    IF locs = <<>> THEN <<"{">> \o Fractions(body) \o <<"}">>
    ELSE frac(Strip(Fractions(SubSeq(body, 1, locs[1]))),
              Strip(Fractions(SubSeq(body, locs[1] + 6, Len(body)))))

\* C4: where every \over stands in a brace group {num \over den} of its own,
\* _replace_over returns the text with each such group as \frac{num}{den},
\* num and den stripped, nested groups included, and all else unchanged.
C4_FractionConversion ==
    (pc = "replace_over done" /\ Grouped(string)) => out = Fractions(string)

(***************************************************************************)
(* Specification SpecCli: invocations of cli.main with --in-place and of   *)
(* process_file with in_place=True, one after the other in one process, on *)
(* lists of files.  files is the content of each file, writes the files    *)
(* opened for writing by the invocation at hand, return_values the list    *)
(* that is the default argument of process_file.                           *)
(***************************************************************************)
MaxInvocations == 3

FileNames == {"a.tex", "b.tex"}

Contents == {Chars("a=b"), Chars("a = b")}

InfileLists == {<<"a.tex">>, <<"b.tex">>, <<"a.tex", "b.tex">>}

InitCli ==
    /\ files \in [FileNames -> Contents]
    /\ writes = <<>>
    /\ return_values = <<>>
    /\ infiles = <<>>
    /\ todo = <<>>
    /\ return_code = 0
    /\ status = <<>>
    /\ invocations = 0
    /\ pc = "idle"
    /\ string = <<>>
    /\ out = <<>>
    /\ raised = "none"
    /\ warned = <<>>
    /\ IdleCall
    /\ IdleClean

\* cli.main(["-i"] + fls) or process_file(fls, outfile, True) is called
Invoke(call, fls) ==
    /\ pc = "idle"
    /\ invocations < MaxInvocations
    /\ invocations' = invocations + 1
    /\ pc' = call
    /\ infiles' = fls
    /\ todo' = fls
    /\ writes' = <<>>
    /\ return_code' = 0
    /\ UNCHANGED <<files, return_values, status>>
    /\ UNCHANGED <<string, out, raised, warned>>
    /\ UNCHANGED <<callVars, cleanVars>>

InvokeMain == \E fls \in InfileLists : Invoke("main", fls)

InvokeProcessFile == \E fls \in InfileLists : Invoke("process_file", fls)

\* open(name, "w") and f.write(text)
Written(name, text) ==
    /\ writes' = Append(writes, [name |-> name, content |-> files[name], out |-> text])
    /\ files' = [files EXCEPT ![name] = text]

\* one round of the for loop of cli.main, r being what clean hands back
MainRound(r) ==
    /\ pc = "main"
    /\ todo # <<>>
    /\ string' = files[Head(todo)]
    /\ IF r.err # "none"
       THEN /\ raised' = r.err
            /\ pc' = "raised"
            /\ UNCHANGED <<out, return_code, writes, files, todo>>
       ELSE /\ out' = r.val
            /\ return_code' = (IF return_code # 0 THEN return_code
                               ELSE IF files[Head(todo)] # r.val THEN 1 ELSE 0)
            /\ Written(Head(todo), r.val)
            /\ todo' = Tail(todo)
            /\ UNCHANGED <<raised, pc>>
    /\ UNCHANGED <<return_values, infiles, status, invocations, warned>>
    /\ UNCHANGED <<callVars, cleanVars>>

MainLoop == MainRound(clean(files[Head(todo)], keep_comments, keep_dollar))

\* one invocation is over: what it reports and what it has done
Reported(call, value) ==
    Append(status,
           [call |-> call, reported |-> value,
            changed |-> \E k \in 1..Len(writes) :
                            writes[k].content # writes[k].out])

MainReturn ==
    /\ pc = "main"
    /\ todo = <<>>
    /\ status' = Reported("main", return_code)
    /\ pc' = "idle"
    /\ UNCHANGED <<files, writes, return_values, infiles, todo, return_code,
                  invocations>>
    /\ UNCHANGED <<string, out, raised, warned>>
    /\ UNCHANGED <<callVars, cleanVars>>

\* one round of the for loop of process_file: the call of process_file for
\* one file, with in_place = True and the default return_values
ProcessFileRound(r) ==
    /\ pc = "process_file"
    /\ todo # <<>>
    /\ string' = files[Head(todo)]
    /\ IF r.err # "none"
       THEN /\ raised' = r.err
            /\ pc' = "raised"
            /\ UNCHANGED <<out, return_values, writes, files, todo>>
       ELSE /\ out' = r.val
            /\ IF files[Head(todo)] # r.val
               THEN /\ Written(Head(todo), r.val)
                    /\ return_values' = Append(return_values, 1)
               ELSE UNCHANGED <<writes, files, return_values>>
            /\ todo' = Tail(todo)
            /\ UNCHANGED <<raised, pc>>
    /\ UNCHANGED <<return_code, infiles, status, invocations, warned>>
    /\ UNCHANGED <<callVars, cleanVars>>

ProcessFileLoop ==
    ProcessFileRound(clean(files[Head(todo)], keep_comments, keep_dollar))

ProcessFileReturn ==
    /\ pc = "process_file"
    /\ todo = <<>>
    /\ status' = Reported("process_file", IF return_values # <<>> THEN 1 ELSE 0)
    /\ pc' = "idle"
    /\ UNCHANGED <<files, writes, return_values, infiles, todo, return_code,
                  invocations>>
    /\ UNCHANGED <<string, out, raised, warned>>
    /\ UNCHANGED <<callVars, cleanVars>>

NextCli ==
    \/ InvokeMain
    \/ MainLoop
    \/ MainReturn
    \/ InvokeProcessFile
    \/ ProcessFileLoop
    \/ ProcessFileReturn

SpecCli == InitCli /\ [][NextCli]_vars

\* C9: in in-place mode a file is opened for writing only if its cleaned
\* content differs from its content, and an invocation reports 1 (a list that
\* is not empty) exactly when a file it has processed was changed.
C9_InPlaceWritesOnlyChanges ==
    /\ \A k \in 1..Len(writes) : writes[k].content # writes[k].out
    /\ \A k \in 1..Len(status) :
          status[k].reported = (IF status[k].changed THEN 1 ELSE 0)
====
